---- MODULE Spec2Model ----
(***************************************************************************)
(* The summary requester of the StackOverflow summarizer extension         *)
(* (src/popup.js): the popup's runs of summarizeWithRetry, the calls they  *)
(* have on the network, the timers they have armed and the output area.    *)
(* After it, each under a specification of its own: the URL check of the   *)
(* popup (UrlSpec), the page observer (src/content.js, ObserverSpec) and   *)
(* the tab listeners of the coordinator (background.js, CoordinatorSpec).  *)
(*                                                                         *)
(* Strings are sequences of tokens (a token is a piece of text that the    *)
(* code never looks inside), so that String.includes and the regular       *)
(* expressions of the code are computed, not assumed.                      *)
(***************************************************************************)
EXTENDS Integers, Sequences, FiniteSets, TLC

\* ------------------------------------------------------------------ bounds

\* The number of times summarizeWithRetry is triggered: the automatic start
\* of DOMContentLoaded and MaxRuns - 1 clicks on 'Refresh Summary'.
MaxRuns == 2

Runs == 1..MaxRuns

\* ------------------------------------------------------- program constants

\* retryWithDelay(fn, maxRetries = 2, delay = 1000)
maxRetries == 2

\* ------------------------------------------------------------------ values

\* JavaScript's undefined, where a string is expected.
Undefined == <<"<undefined>">>

\* No details argument / nothing rendered.
NoValue == <<"<none>">>

\* if (x): a string is truthy when it is defined and not empty.
Truthy(s) == s # Undefined /\ s # NoValue /\ s # <<>>

\* String.prototype.includes, on token sequences.
Includes(s, needle) ==
    \E i \in 1..(Len(s) - Len(needle) + 1) :
        SubSeq(s, i, i + Len(needle) - 1) = needle

\* The texts of the code.
FailedToFetch == <<"Failed to fetch">>
TimeoutMsg == <<"Request timed out after 45 seconds">>
ConnectMsg == <<"Cannot connect to backend server. Make sure it's running on localhost:8000">>
BackendDownMsg == <<"Backend server is not running">>
BackendDownHint == <<"Start your FastAPI server: python main.py">>
NotQuestionMsg == <<"Not a StackOverflow question page">>
NotQuestionHint == <<"Please navigate to a StackOverflow question first">>
GenerationFailedMsg == <<"Summary generation failed">>
UnexpectedFormatMsg == <<"Unexpected response format">>
FailedToSummarizeMsg == <<"Failed to summarize question">>
AllAttemptsFailedMsg == <<"All attempts failed">>
LoadingMsg == <<"Summarizing StackOverflow question...">>

\* ---------------------------------------------------------------- the URLs

\* /https?:\/\/stackoverflow\.com\/questions\/\d+/ and the /q/ pattern, as
\* RegExp.test computes them: a match may start anywhere in the string.
Schemes == {"http://", "https://"}
Digits == {"0", "1", "2"}

MatchesAt(url, i, path) ==
    /\ i + 3 <= Len(url)
    /\ url[i] \in Schemes
    /\ url[i + 1] = "stackoverflow.com"
    /\ url[i + 2] = path
    /\ url[i + 3] \in Digits

PatternTest(url, path) == \E i \in 1..Len(url) : MatchesAt(url, i, path)

isValidStackOverflowUrl(url) ==
    IF ~Truthy(url) THEN FALSE
    ELSE PatternTest(url, "/questions/") \/ PatternTest(url, "/q/")

QuestionUrl == <<"https://", "stackoverflow.com", "/questions/", "1", "2">>
ShortUrl == <<"http://", "stackoverflow.com", "/q/", "1">>
OtherSiteUrl == <<"https://", "example.com", "/questions/", "1">>

\* What chrome.tabs.query({active, currentWindow}) answers: the list of the
\* matching tabs; a tab's url is undefined when the extension may not see it.
TabUrls == {QuestionUrl, OtherSiteUrl, Undefined}
TabsResults == {<<>>} \cup {<<[url |-> u]>> : u \in TabUrls}

\* ------------------------------------------------------- response bodies

\* A parsed JSON value, as far as the code reads it: the fields status,
\* summary, error and detail of an object (Undefined when absent), the
\* value null, or "invalid" when the text is not JSON at all.
Json(type, status, summary, error, detail) ==
    [type |-> type, status |-> status, summary |-> summary,
     error |-> error, detail |-> detail]

JsonObject(status, summary, error, detail) ==
    Json("object", status, summary, error, detail)
JsonNull == Json("null", Undefined, Undefined, Undefined, Undefined)
NotJson == Json("invalid", Undefined, Undefined, Undefined, Undefined)

\* A response body: its text and what JSON.parse makes of that text.
SuccessBody ==
    [text |-> <<"{status:success,summary:X}">>,
     json |-> JsonObject(<<"success">>, <<"X">>, Undefined, Undefined)]
OtherSuccessBody ==
    [text |-> <<"{status:success,summary:Y}">>,
     json |-> JsonObject(<<"success">>, <<"Y">>, Undefined, Undefined)]
EmptySummaryBody ==
    [text |-> <<"{status:success,summary:}">>,
     json |-> JsonObject(<<"success">>, <<>>, Undefined, Undefined)]
NoSummaryBody ==
    [text |-> <<"{status:success}">>,
     json |-> JsonObject(<<"success">>, Undefined, Undefined, Undefined)]
ErrorBody ==
    [text |-> <<"{status:error,error:boom}">>,
     json |-> JsonObject(<<"error">>, Undefined, <<"boom">>, Undefined)]
DetailBody ==
    [text |-> <<"{detail:boom}">>,
     json |-> JsonObject(Undefined, Undefined, Undefined, <<"boom">>)]
FetchDetailBody ==
    [text |-> <<"{detail:upstream: Failed to fetch}">>,
     json |-> JsonObject(Undefined, Undefined, Undefined,
                         <<"upstream:", "Failed to fetch">>)]
NullBody == [text |-> <<"null">>, json |-> JsonNull]
TextBody == [text |-> <<"Internal Server Error">>, json |-> NotJson]
EmptyBody == [text |-> <<>>, json |-> NotJson]
NoBody == [text |-> NoValue, json |-> NotJson]

Bodies ==
    {SuccessBody, OtherSuccessBody, EmptySummaryBody, NoSummaryBody, ErrorBody,
     DetailBody, FetchDetailBody, NullBody, TextBody, EmptyBody}

\* JSON.stringify of a value the backend sent: the text it was parsed from.
JsonStringify(json) == (CHOOSE b \in Bodies : b.json = json).text

\* What the backend may answer: each body under the status where the code
\* reads it in a way of its own (under 200 a body without status is read the
\* same whatever its detail, under 500 a JSON body without detail is read the
\* same whatever its status field).
Response(status, body) == [status |-> status, body |-> body]
Responses ==
    {Response(200, b) : b \in {SuccessBody, OtherSuccessBody, EmptySummaryBody,
                                NoSummaryBody, ErrorBody, DetailBody, NullBody,
                                TextBody}}
    \cup {Response(500, b) : b \in {DetailBody, FetchDetailBody, ErrorBody,
                                      NullBody, TextBody, EmptyBody}}
StatusText(status) == IF status = 200 THEN "200" ELSE "500"
\* response.ok
Ok(status) == status \in 200..299

\* ------------------------------------------------- makeApiRequest, its parts

Err(name, message) == [name |-> name, message |-> message]
NoError == Err("none", NoValue)

Resolved(json) == [kind |-> "resolved", value |-> json, error |-> NoError]
Rejected(error) == [kind |-> "rejected", value |-> NotJson, error |-> error]

\* fetch's own failures, and those of reading and parsing a body.
FetchTypeError == Err("TypeError", FailedToFetch)
AbortError == Err("AbortError", <<"The user aborted a request.">>)
BodyTypeError == Err("TypeError", <<"network error">>)
JsonSyntaxError == Err("SyntaxError", <<"Unexpected token">>)
NullTypeError == Err("TypeError", <<"Cannot read properties of null">>)

\* The message of the Error thrown for a response that is not ok.
ErrorMessage(status, body) ==
    LET errorText == body.text
        errorJson == body.json
        generic == <<"Server returned", StatusText(status)>>
        \* catch (e): JSON.parse threw, or reading .detail of null did
        caught == IF Truthy(errorText) THEN errorText ELSE generic
    IN  CASE errorJson.type = "invalid" -> caught
          [] errorJson.type = "null" -> caught
          [] OTHER -> IF Truthy(errorJson.detail) THEN errorJson.detail
                      ELSE generic

\* Mutant: the catch does not tell an abort from another failure.
CatchApiErrorWithoutAbort(error) ==
    IF Includes(error.message, FailedToFetch) THEN Err("Error", ConnectMsg)
    ELSE error

\* catch (error) of makeApiRequest: what it throws for what it caught.
CatchApiError(error) ==
    IF error.name = "AbortError" THEN Err("Error", TimeoutMsg)
    ELSE IF Includes(error.message, FailedToFetch) THEN Err("Error", ConnectMsg)
    ELSE error

\* How makeApiRequest settles once the body of the response was read.
ApiResult(status, body) ==
    IF ~Ok(status)
    THEN Rejected(CatchApiError(Err("Error", ErrorMessage(status, body))))
    ELSE IF body.json.type = "invalid"
         THEN Rejected(CatchApiError(JsonSyntaxError))
         ELSE Resolved(body.json)

\* Mutant: the catch of testBackendHealth returns true as well.
TestBackendHealthAlwaysTrue(outcome) == TRUE

\* testBackendHealth: true when makeApiRequest resolved, false when it threw.
TestBackendHealth(outcome) == outcome.kind = "resolved"

\* ---------------------------------------------------------- the output area

Block(kind, message, details) ==
    [kind |-> kind, message |-> message, details |-> details]
NoBlock == Block("None", NoValue, NoValue)

LoadingBlock == Block("Loading", LoadingMsg, NoValue)
ErrorBlock(message, details) ==
    Block("Error", message, IF Truthy(details) THEN details ELSE NoValue)
SuccessBlock(summary) == Block("Success", summary, NoValue)

\* Mutant: output.innerHTML += ..., the block is added to what the area shows.
SetInnerHtmlAppends(out, block) == Append(out, block)

\* output.innerHTML = ...: the block replaces what the area showed.
SetInnerHtml(out, block) == <<block>>

\* What summarizeQuestion renders for the way the summarize call settled.
ResultBlock(outcome) ==
    IF outcome.kind = "rejected"
    THEN ErrorBlock(FailedToSummarizeMsg, outcome.error.message)
    ELSE LET result == outcome.value
         IN  IF result.type = "null"
             THEN ErrorBlock(FailedToSummarizeMsg, NullTypeError.message)
             ELSE IF result.status = <<"success">> /\ Truthy(result.summary)
             THEN SuccessBlock(result.summary)
             ELSE IF result.status = <<"error">>
             THEN ErrorBlock(GenerationFailedMsg, result.error)
             ELSE ErrorBlock(UnexpectedFormatMsg, JsonStringify(result))

\* Mutant: summarizeQuestion's catch throws the error on after rendering it.
SummarizeQuestionRethrows(block) ==
    IF block.kind = "Error" THEN "threw" ELSE "returned"

\* How a call of summarizeQuestion ends: its catch leaves nothing to throw.
SummarizeQuestionEnds(block) == "returned"

\* retryWithDelay, after attempt i (from 0) ended: return, throw the error
\* or wait and run the next attempt.
RetryWithDelay(i, ended) ==
    IF ended = "returned" THEN "return"
    ELSE IF i = maxRetries - 1 THEN "throw"
    ELSE "delay"

\* -------------------------------------------------------------- the state

VARIABLES
    loaded,     \* DOMContentLoaded has been handled
    output,     \* the blocks in the output area (its innerHTML)
    pc,         \* where each run of summarizeWithRetry is
    attempt,    \* retryWithDelay's i of each run
    url,        \* summarizeQuestion's currentUrl of each run
    net,        \* the calls on the network: fetch's promise or the body pending
    timers,     \* the setTimeout timers that are armed
    healthy,    \* how the GET /health of each run settled: resolved or thrown
    posts,      \* how many POST /summarize each run has issued
    rendered,   \* the block each run rendered last
    aborted,    \* the calls that their timeout has aborted
    \* a URL put to isValidStackOverflowUrl
    candidate,  \* the URL
    verdict,    \* what isValidStackOverflowUrl answered for it
    \* the page observer (src/content.js) in one page
    href,       \* window.location.href
    docTitle,   \* document.title
    stage,      \* where the content script is
    sent,       \* the messages it has sent with chrome.runtime.sendMessage
    pageInfo,   \* what it answered to the last 'getPageInfo'
    \* the coordinator (background.js), for each tab
    tabUrl,     \* the page the tab shows
    badge,      \* the badge text set for the tab
    title,      \* the action title set for the tab
    handled     \* a listener of the coordinator has run for the tab

popupVars == <<loaded, output, pc, attempt, url, net, timers, healthy, posts, rendered,
               aborted>>
checkVars == <<candidate, verdict>>
observerVars == <<href, docTitle, stage, sent, pageInfo>>
coordinatorVars == <<tabUrl, badge, title, handled>>

vars == <<popupVars, checkVars, observerVars, coordinatorVars>>

Timer(run, kind) == [run |-> run, kind |-> kind]

\* A call of makeApiRequest on the network. phase "fetch": fetch's promise is
\* pending; phase "body": the response is there and response.text() or
\* response.json() is pending. overdue: TIMEOUT_MS have passed since the call
\* began with no timer left to say so.
Call(run, endpoint, phase, status, body, data, overdue) ==
    [run |-> run, endpoint |-> endpoint, phase |-> phase, status |-> status,
     body |-> body, data |-> data, overdue |-> overdue]

\* Mutant: once a summary has been shown, a later call asks only whether it
\* has changed.
FetchRevalidating(run, endpoint, data) ==
    Call(run, endpoint, "fetch", 0, NoBody,
         IF \E q \in Runs : rendered[q].kind = "Success"
         THEN <<"If-None-Match">> ELSE data,
         FALSE)

\* fetch(url, options): the call as it goes out.
Fetch(run, endpoint, data) == Call(run, endpoint, "fetch", 0, NoBody, data, FALSE)

\* Mutant: the POST carries a URL rebuilt for the question, not currentUrl.
RequestDataRebuilt(currentUrl) == ShortUrl

\* JSON.stringify({ url: currentUrl }), the body of the POST.
RequestData(currentUrl) == currentUrl

\* Mutant: the timer is left armed.
ClearTimeoutForgotten(ts, t) == ts

\* clearTimeout(timeoutId)
ClearTimeout(ts, t) == ts \ {t}

\* Mutant: fetch was not given the signal, the abort leaves the call out.
AbortWithoutSignal(calls, c) == calls

\* controller.abort(): the call leaves the network, nothing of it arrives later.
Abort(calls, c) == calls \ {c}

TypeOK ==
    /\ loaded \in BOOLEAN
    /\ output \in Seq([kind : {"Loading", "Success", "Error"},
                       message : Seq(STRING), details : Seq(STRING)])
    /\ pc \in [Runs -> {"idle", "health", "tabs", "summarize", "delay", "done"}]
    /\ attempt \in [Runs -> 0..(maxRetries - 1)]
    /\ url \in [Runs -> TabUrls \cup {NoValue}]
    /\ \A c \in net :
        /\ c.run \in Runs
        /\ c.endpoint \in {"health", "summarize"}
        /\ c.phase \in {"fetch", "body"}
    /\ \A t \in timers : t.run \in Runs /\ t.kind \in {"health", "summarize", "retry"}
    /\ healthy \in [Runs -> {"unknown", "resolved", "rejected"}]
    /\ posts \in [Runs -> 0..maxRetries]
    /\ \A a \in aborted : a.run \in Runs /\ a.kind \in {"health", "summarize"}

\* The popup alone: no URL is put to the check, no page and no tab is there.
CheckOff == candidate = NoValue /\ verdict = "unchecked"
ObserverOff ==
    /\ href = NoValue /\ docTitle = NoValue
    /\ stage = "off" /\ sent = <<>> /\ pageInfo = NoValue
CoordinatorOff == tabUrl = <<>> /\ badge = <<>> /\ title = <<>> /\ handled = <<>>

Init ==
    /\ loaded = FALSE
    /\ output = <<>>
    /\ pc = [r \in Runs |-> "idle"]
    /\ attempt = [r \in Runs |-> 0]
    /\ url = [r \in Runs |-> NoValue]
    /\ net = {}
    /\ timers = {}
    /\ healthy = [r \in Runs |-> "unknown"]
    /\ posts = [r \in Runs |-> 0]
    /\ rendered = [r \in Runs |-> NoBlock]
    /\ aborted = {}
    /\ CheckOff /\ ObserverOff /\ CoordinatorOff

\* ------------------------------------------------------ summarizeQuestion

\* summarizeQuestion up to its first await: showLoading, then testBackendHealth
\* calls makeApiRequest, which arms its timer and calls fetch. ts: the timers
\* armed when it starts.
BeginAttempt(r, ts) ==
    /\ output' = SetInnerHtml(output, LoadingBlock)
    /\ rendered' = [rendered EXCEPT ![r] = LoadingBlock]
    /\ pc' = [pc EXCEPT ![r] = "health"]
    /\ net' = net \cup {Fetch(r, "health", NoValue)}
    /\ timers' = ts \cup {Timer(r, "health")}
    /\ healthy' = [healthy EXCEPT ![r] = "unknown"]
    /\ url' = [url EXCEPT ![r] = NoValue]

\* summarizeQuestion renders block and ends; retryWithDelay and then
\* summarizeWithRetry go on from there. calls, ts: the network and the timers
\* as the attempt leaves them.
EndAttempt(r, block, calls, ts) ==
    LET ended == SummarizeQuestionEnds(block)
        next == RetryWithDelay(attempt[r], ended)
        shown == SetInnerHtml(output, block)
    IN  /\ net' = calls
        /\ CASE next = "return" ->
                  /\ output' = shown
                  /\ rendered' = [rendered EXCEPT ![r] = block]
                  /\ pc' = [pc EXCEPT ![r] = "done"]
                  /\ timers' = ts
             [] next = "delay" ->
                  /\ output' = shown
                  /\ rendered' = [rendered EXCEPT ![r] = block]
                  /\ pc' = [pc EXCEPT ![r] = "delay"]
                  /\ timers' = ts \cup {Timer(r, "retry")}
             [] OTHER ->
                  \* catch of summarizeWithRetry
                  LET failed == ErrorBlock(AllAttemptsFailedMsg, block.details)
                  IN  /\ output' = SetInnerHtml(shown, failed)
                      /\ rendered' = [rendered EXCEPT ![r] = failed]
                      /\ pc' = [pc EXCEPT ![r] = "done"]
                      /\ timers' = ts
        /\ UNCHANGED <<loaded, attempt>>

\* summarizeQuestion goes on after the makeApiRequest it awaited has settled.
Continue(r, endpoint, outcome, calls, ts) ==
    IF endpoint = "health"
    THEN IF TestBackendHealth(outcome)
         THEN \* await chrome.tabs.query(...)
              /\ healthy' = [healthy EXCEPT ![r] = outcome.kind]
              /\ pc' = [pc EXCEPT ![r] = "tabs"]
              /\ net' = calls
              /\ timers' = ts
              /\ UNCHANGED <<loaded, output, attempt, url, posts, rendered>>
         ELSE /\ healthy' = [healthy EXCEPT ![r] = outcome.kind]
              /\ EndAttempt(r, ErrorBlock(BackendDownMsg, BackendDownHint), calls, ts)
              /\ UNCHANGED <<url, posts>>
    ELSE /\ EndAttempt(r, ResultBlock(outcome), calls, ts)
         /\ UNCHANGED <<url, posts, healthy>>

\* ----------------------------------------------------------------- actions

NextRun == CHOOSE r \in Runs : pc[r] = "idle" /\ \A q \in Runs : q < r => pc[q] # "idle"

\* The DOMContentLoaded handler: it adds the button and starts a run.
DOMContentLoaded ==
    /\ UNCHANGED <<checkVars, observerVars, coordinatorVars>>
    /\ ~loaded
    /\ loaded' = TRUE
    /\ BeginAttempt(NextRun, timers)
    /\ UNCHANGED <<attempt, posts, aborted>>

\* A click on 'Refresh Summary': summarizeWithRetry starts another run.
ClickRefresh ==
    /\ UNCHANGED <<checkVars, observerVars, coordinatorVars>>
    /\ loaded
    /\ \E r \in Runs : pc[r] = "idle"
    /\ BeginAttempt(NextRun, timers)
    /\ UNCHANGED <<loaded, attempt, posts, aborted>>

\* fetch's promise resolves: the response is there, its body is not yet.
\* makeApiRequest clears its timer and awaits response.text() or .json().
FetchResolved(c, response) ==
    /\ UNCHANGED <<checkVars, observerVars, coordinatorVars>>
    /\ c \in net /\ c.phase = "fetch"
    /\ net' = (net \ {c}) \cup {[c EXCEPT !.phase = "body",
                                             !.status = response.status,
                                             !.body = response.body]}
    /\ timers' = ClearTimeout(timers, Timer(c.run, c.endpoint))
    /\ UNCHANGED <<loaded, output, pc, attempt, url, healthy, posts, rendered, aborted>>

\* fetch's promise rejects: no connection.
FetchFailed(c) ==
    /\ UNCHANGED <<checkVars, observerVars, coordinatorVars>>
    /\ c \in net /\ c.phase = "fetch"
    /\ Continue(c.run, c.endpoint, Rejected(CatchApiError(FetchTypeError)),
                net \ {c}, ClearTimeout(timers, Timer(c.run, c.endpoint)))
    /\ UNCHANGED aborted

\* The body has arrived: response.text() or response.json() settles.
BodyRead(c) ==
    /\ UNCHANGED <<checkVars, observerVars, coordinatorVars>>
    /\ c \in net /\ c.phase = "body"
    /\ Continue(c.run, c.endpoint, ApiResult(c.status, c.body),
                net \ {c}, ClearTimeout(timers, Timer(c.run, c.endpoint)))
    /\ UNCHANGED aborted

\* The connection breaks while the body is read.
BodyFailed(c) ==
    /\ UNCHANGED <<checkVars, observerVars, coordinatorVars>>
    /\ c \in net /\ c.phase = "body"
    /\ Continue(c.run, c.endpoint, Rejected(CatchApiError(BodyTypeError)),
                net \ {c}, ClearTimeout(timers, Timer(c.run, c.endpoint)))
    /\ UNCHANGED aborted

\* TIMEOUT_MS pass for a call whose timer is no longer armed: nothing runs.
DeadlinePasses(c) ==
    /\ UNCHANGED <<checkVars, observerVars, coordinatorVars>>
    /\ c \in net /\ ~c.overdue
    /\ Timer(c.run, c.endpoint) \notin timers
    /\ net' = (net \ {c}) \cup {[c EXCEPT !.overdue = TRUE]}
    /\ UNCHANGED <<loaded, output, pc, attempt, url, timers, healthy, posts, rendered,
                   aborted>>

\* A timer fires. makeApiRequest's timer aborts its call, and the fetch or the
\* body read of that call rejects with AbortError; retryWithDelay's timer
\* starts the next attempt.
TimerFires(t) ==
    /\ UNCHANGED <<checkVars, observerVars, coordinatorVars>>
    /\ t \in timers
    /\ IF t.kind = "retry"
       THEN /\ attempt' = [attempt EXCEPT ![t.run] = attempt[t.run] + 1]
            /\ BeginAttempt(t.run, timers \ {t})
            /\ UNCHANGED <<loaded, posts, aborted>>
       ELSE LET mine == {c \in net : c.run = t.run /\ c.endpoint = t.kind}
            IN  IF mine = {}
                THEN /\ timers' = timers \ {t}
                     /\ UNCHANGED <<loaded, output, pc, attempt, url, net,
                                    healthy, posts, rendered, aborted>>
                ELSE LET c == CHOOSE c \in mine : TRUE
                     IN  /\ aborted' = aborted \cup {t}
                         /\ Continue(t.run, t.kind, Rejected(CatchApiError(AbortError)),
                                     Abort(net, c), timers \ {t})

\* chrome.tabs.query answers: the URL is validated and, when accepted, posted.
TabsQueryResolved(r, tabs) ==
    /\ UNCHANGED <<checkVars, observerVars, coordinatorVars>>
    /\ pc[r] = "tabs"
    /\ UNCHANGED aborted
    /\ IF tabs = <<>>
       THEN \* tabs[0].url throws, summarizeQuestion's catch renders it
            /\ EndAttempt(r, ErrorBlock(FailedToSummarizeMsg,
                                        <<"Cannot read properties of undefined">>),
                          net, timers)
            /\ UNCHANGED <<url, healthy, posts>>
       ELSE LET currentUrl == tabs[1].url
            IN  /\ url' = [url EXCEPT ![r] = currentUrl]
                /\ IF ~isValidStackOverflowUrl(currentUrl)
                   THEN /\ EndAttempt(r, ErrorBlock(NotQuestionMsg, NotQuestionHint),
                                      net, timers)
                        /\ UNCHANGED <<healthy, posts>>
                   ELSE /\ net' = net \cup {Fetch(r, "summarize", RequestData(currentUrl))}
                        /\ timers' = timers \cup {Timer(r, "summarize")}
                        /\ posts' = [posts EXCEPT ![r] = posts[r] + 1]
                        /\ pc' = [pc EXCEPT ![r] = "summarize"]
                        /\ UNCHANGED <<loaded, output, attempt, healthy, rendered>>

Next ==
    \/ DOMContentLoaded
    \/ ClickRefresh
    \/ \E c \in net, response \in Responses : FetchResolved(c, response)
    \/ \E c \in net : FetchFailed(c)
    \/ \E c \in net : BodyRead(c)
    \/ \E c \in net : BodyFailed(c)
    \/ \E c \in net : DeadlinePasses(c)
    \/ \E t \in timers : TimerFires(t)
    \/ \E r \in Runs, tabs \in TabsResults : TabsQueryResolved(r, tabs)

Spec == Init /\ [][Next]_vars

\* What the platform guarantees of a run: the handler of DOMContentLoaded
\* runs, an armed timer fires and chrome.tabs.query answers. Nothing is
\* guaranteed of the backend or of the user.
LiveSpec ==
    /\ Spec
    /\ WF_vars(DOMContentLoaded)
    /\ \A r \in Runs :
        /\ \A kind \in {"health", "summarize", "retry"} :
               WF_vars(TimerFires(Timer(r, kind)))
        /\ WF_vars(\E tabs \in TabsResults : TabsQueryResolved(r, tabs))

\* ------------------------------------------------------------- the claims

CallsOf(r, endpoint) == {c \in net : c.run = r /\ c.endpoint = endpoint}
SummarizeCalls == {c \in net : c.endpoint = "summarize"}
InProgress(r) == pc[r] \notin {"idle", "done"}
BackendDownBlock == ErrorBlock(BackendDownMsg, BackendDownHint)
NotQuestionBlock == ErrorBlock(NotQuestionMsg, NotQuestionHint)
TimeoutBlock == ErrorBlock(FailedToSummarizeMsg, TimeoutMsg)

\* C1: a run has a POST /summarize out, or is past it, only when its own
\* GET /health has settled and resolved; a run whose health check threw has
\* rendered 'Backend server is not running', has ended and has issued no
\* POST /summarize.
C1_HealthPrecedesSummarize ==
    \A r \in Runs :
        /\ (pc[r] = "summarize" \/ CallsOf(r, "summarize") # {} \/ posts[r] > 0)
              => healthy[r] = "resolved" /\ CallsOf(r, "health") = {}
        /\ healthy[r] = "rejected"
              => /\ pc[r] = "done"
                 /\ rendered[r] = BackendDownBlock
                 /\ posts[r] = 0
                 /\ CallsOf(r, "summarize") = {}

\* One run was stopped by its failed health check while another, whose health
\* check resolved, has its POST /summarize out.
C1_Witness ==
    \E r, q \in Runs :
        /\ healthy[r] = "rejected" /\ pc[r] = "done"
        /\ healthy[q] = "resolved" /\ CallsOf(q, "summarize") # {}

\* C2, as claimed: the popup never has two POST /summarize out at once.
C2_OneSummarizeInFlight == Cardinality(SummarizeCalls) <= 1

\* C2, amended: every call on the network is the one call its run is
\* awaiting, so a run never has two POST /summarize out at once and a run that
\* has ended has none; the popup has at most as many out at once as it has
\* runs in progress.
C2_OneCallPerRun ==
    /\ \A c \in net : pc[c.run] = c.endpoint
    /\ \A c, d \in net : c.run = d.run => c = d
    /\ Cardinality(SummarizeCalls) <= Cardinality({r \in Runs : InProgress(r)})

\* Two runs, started by two triggers, each have their POST /summarize out.
C2_Witness ==
    \E r, q \in Runs :
        r # q /\ CallsOf(r, "summarize") # {} /\ CallsOf(q, "summarize") # {}

\* C3, as claimed: a run that ended with an Error rendered has made
\* maxRetries attempts.
C3_FailedRunHasRetried ==
    \A r \in Runs :
        (pc[r] = "done" /\ rendered[r].kind = "Error") => attempt[r] = maxRetries - 1

\* C4, as claimed: with timers that fire, a run that was triggered ends,
\* whatever the backend does.
C4_EveryRunEnds == \A r \in Runs : (pc[r] # "idle") ~> (pc[r] = "done")

\* C5: once the timeout has aborted the POST /summarize of a run, the call is
\* off the network, the run has ended and what it rendered, and keeps as its
\* last rendering, is the error with the timeout message, which is neither
\* the connectivity message nor a message made from a server's answer.
C5_TimeoutAbortsAndReports ==
    \A a \in aborted :
        a.kind = "summarize" =>
            /\ CallsOf(a.run, "summarize") = {}
            /\ pc[a.run] = "done"
            /\ rendered[a.run] = TimeoutBlock
            /\ TimeoutMsg # ConnectMsg
            /\ \A response \in Responses :
                   TimeoutMsg # ErrorMessage(response.status, response.body)

\* The timeout has fired on a POST /summarize that had not answered.
C5_Witness == \E a \in aborted : a.kind = "summarize" /\ pc[a.run] = "done"

\* C6: the URL in the body of a POST /summarize is the run's currentUrl, which
\* isValidStackOverflowUrl accepted; a run whose currentUrl was rejected has
\* rendered 'Not a StackOverflow question page', has ended and has issued no
\* POST /summarize.
C6_OnlyValidatedUrlPosted ==
    /\ \A c \in SummarizeCalls :
           c.data = url[c.run] /\ isValidStackOverflowUrl(url[c.run])
    /\ \A r \in Runs :
        /\ posts[r] > 0 => isValidStackOverflowUrl(url[r])
        /\ (url[r] # NoValue /\ ~isValidStackOverflowUrl(url[r]))
              => /\ pc[r] = "done"
                 /\ rendered[r] = NotQuestionBlock
                 /\ posts[r] = 0
                 /\ CallsOf(r, "summarize") = {}

\* One run has posted the question's URL it validated, another was stopped by
\* a URL of another site.
C6_Witness ==
    \E r, q \in Runs :
        /\ \E c \in CallsOf(r, "summarize") : c.data = QuestionUrl
        /\ url[q] = OtherSiteUrl /\ rendered[q] = NotQuestionBlock

\* C7: once the popup has loaded, the output area shows exactly one block,
\* and it is a Loading, a Success or an Error block.
C7_ExactlyOneRenderingState ==
    loaded => /\ Len(output) = 1
              /\ output[1].kind \in {"Loading", "Success", "Error"}

\* Two runs overlap, and the area shows the Error of a run that ended earlier.
C7_Witness ==
    /\ \A r \in Runs : pc[r] # "idle"
    /\ \E r \in Runs : InProgress(r)
    /\ Len(output) = 1 /\ output[1].kind = "Error"

\* What the claim C8 has summarizeQuestion render for a 2xx body.
C8_Renders(json, block) ==
    LET success == json.type = "object" /\ json.status = <<"success">>
                      /\ Truthy(json.summary)
        error == json.type = "object" /\ json.status = <<"error">>
    IN  /\ block.kind = "Success" <=> success
        /\ success => block = SuccessBlock(json.summary)
        /\ error => block = ErrorBlock(GenerationFailedMsg, json.error)
        /\ (~success /\ ~error) =>
              block.kind = "Error" /\ block.message = UnexpectedFormatMsg

\* C8, as claimed: when the body of a 2xx answer to POST /summarize has been
\* read, the run renders Success(X) exactly for status "success" with a
\* non-empty summary X, 'Summary generation failed' with the error text for
\* status "error", and 'Unexpected response format' for every other body.
C8_SummarizeResponseRendering ==
    [][\A c \in net :
          (c.endpoint = "summarize" /\ Ok(c.status) /\ BodyRead(c))
              => C8_Renders(c.body.json, rendered'[c.run])]_vars

\* The message the claim C9 gives the error of a non-2xx answer.
C9_Message(status, body) ==
    IF body.json.type = "object" /\ Truthy(body.json.detail) THEN body.json.detail
    ELSE IF body.text # <<>> THEN body.text
    ELSE <<"Server returned", StatusText(status)>>

\* C9, as claimed: when the body of a non-2xx answer to POST /summarize has
\* been read, the error rendered carries the body's detail, else the raw text
\* of the body when there is any, else 'Server returned <status>'.
C9_ServerErrorFromBody ==
    [][\A c \in net :
          (c.endpoint = "summarize" /\ ~Ok(c.status) /\ BodyRead(c))
              => rendered'[c.run] =
                    ErrorBlock(FailedToSummarizeMsg, C9_Message(c.status, c.body))]_vars

\* The GET /health of c's run has settled in this step.
HealthSettles(c) ==
    /\ c.endpoint = "health"
    /\ {d \in net' : d.run = c.run /\ d.endpoint = "health"} = {}

\* testBackendHealth returns true to c's run in this step: the run goes on to
\* chrome.tabs.query.
HealthReturnsTrue(c) == HealthSettles(c) /\ pc'[c.run] = "tabs"

\* testBackendHealth returns false to c's run in this step: the run renders
\* 'Backend server is not running' and ends.
HealthReturnsFalse(c) ==
    /\ HealthSettles(c)
    /\ pc'[c.run] = "done"
    /\ rendered'[c.run] = BackendDownBlock

\* The body of c is there, its status is 2xx and its text parses as JSON.
AnsweredOkJson(c) ==
    c.phase = "body" /\ Ok(c.status) /\ c.body.json.type # "invalid"

\* C10, as claimed: testBackendHealth returns true only for a 2xx answer with
\* a body that parses as JSON, all of it there within TIMEOUT_MS; however
\* else the call settles it returns false, and it returns one of the two.
C10_HealthTrueOnlyWithinTimeout ==
    [][\A c \in net :
          HealthSettles(c) =>
              /\ HealthReturnsTrue(c) \/ HealthReturnsFalse(c)
              /\ HealthReturnsTrue(c) => (AnsweredOkJson(c) /\ ~c.overdue)
              /\ ~(AnsweredOkJson(c) /\ ~c.overdue) => HealthReturnsFalse(c)]_vars

\* The part of C10 that is not about time: true only for a 2xx answer with a
\* JSON body, false for a network failure, a timeout, a non-2xx answer and a
\* body that is not JSON.
C10_HealthTrueOnlyOn2xxJson ==
    [][\A c \in net :
          HealthSettles(c) =>
              /\ HealthReturnsTrue(c) \/ HealthReturnsFalse(c)
              /\ HealthReturnsTrue(c) => AnsweredOkJson(c)
              /\ ~AnsweredOkJson(c) => HealthReturnsFalse(c)]_vars


\* What a call has to bring for its run to go on: GET /health a 2xx answer
\* with a JSON body, POST /summarize the success body.
GoodAnswer(c) ==
    IF c.endpoint = "health" THEN AnsweredOkJson(c)
    ELSE Ok(c.status) /\ c.body \in {SuccessBody, OtherSuccessBody}

\* A failure happens inside run r: a call of it fails on the network, answers
\* with something other than the good answer or is aborted by its timeout;
\* there is no active tab, or the tab's URL is rejected.
FailureIn(r) ==
    \/ \E c \in net :
          /\ c.run = r
          /\ FetchFailed(c) \/ BodyFailed(c) \/ (BodyRead(c) /\ ~GoodAnswer(c))
    \/ \E kind \in {"health", "summarize"} :
          TimerFires(Timer(r, kind)) /\ Timer(r, kind) \in aborted'
    \/ \E tabs \in TabsResults :
          /\ TabsQueryResolved(r, tabs)
          /\ tabs = <<>> \/ ~isValidStackOverflowUrl(tabs[1].url)

\* C12: every failure inside a run (failed health check, invalid URL, no
\* active tab, network failure, timeout, non-2xx answer, unparseable or
\* unexpected body) is caught in the popup: the run ends there, with an Error
\* block rendered that is all the output shows; nothing is thrown on.
C12_FailureEndsInError ==
    [][\A r \in Runs :
          FailureIn(r) =>
              /\ pc'[r] = "done"
              /\ rendered'[r].kind = "Error"
              /\ output' = <<rendered'[r]>>]_vars

\* One run has ended on a body of unexpected format and another on a tab
\* query that found no active tab.
C12_Witness ==
    \E r, q \in Runs :
        /\ pc[r] = "done" /\ rendered[r].message = UnexpectedFormatMsg
        /\ pc[q] = "done"
        /\ rendered[q].details = <<"Cannot read properties of undefined">>

\* Run q has ended with a Success block rendered, and c is a call of another
\* run for the same URL.
RanBefore(q, c) ==
    /\ q # c.run
    /\ pc[q] = "done" /\ rendered[q].kind = "Success"
    /\ url[q] = url[c.run]

\* C13: a run made after another run has rendered its Success, for the same
\* valid URL and with the backend answering the same summary, posts the same
\* request and renders the same Success block, which is all the output shows.
C13_SecondRunRendersSame ==
    [][/\ \A r, q \in Runs, tabs \in TabsResults :
             ( /\ TabsQueryResolved(r, tabs)
               /\ q # r /\ pc[q] = "done" /\ rendered[q].kind = "Success"
               /\ tabs # <<>> /\ tabs[1].url = url[q] )
             => \E c \in net' :
                    /\ net' = net \cup {c}
                    /\ c.run = r /\ c.endpoint = "summarize" /\ c.phase = "fetch"
                    /\ c.data = url[q]
       /\ \A c \in net, q \in Runs :
             ( /\ c.endpoint = "summarize" /\ BodyRead(c)
               /\ RanBefore(q, c)
               /\ Ok(c.status)
               /\ c.body.json.status = <<"success">>
               /\ c.body.json.summary = rendered[q].message )
             => /\ pc'[c.run] = "done"
                /\ rendered'[c.run] = rendered[q]
                /\ output' = <<rendered[q]>>]_vars

\* Two runs for the same URL have ended with the same Success block, which is
\* what the output shows.
C13_Witness ==
    \E r, q \in Runs :
        /\ r # q /\ pc[r] = "done" /\ pc[q] = "done"
        /\ url[r] = url[q]
        /\ rendered[r].kind = "Success" /\ rendered[q] = rendered[r]
        /\ output = <<rendered[r]>>

\* C14: the error of a POST /summarize carries the connectivity message when
\* fetch itself failed, and never when the server answered (2xx or not,
\* whatever its body or detail says) or when the timeout aborted the call.
C14_ConnectivityOnlyOnNetworkFailure ==
    [][\A c \in net :
          c.endpoint = "summarize" =>
              /\ FetchFailed(c) => rendered'[c.run].details = ConnectMsg
              /\ BodyRead(c) => rendered'[c.run].details # ConnectMsg
              /\ (TimerFires(Timer(c.run, "summarize")) /\ c \notin net')
                    => rendered'[c.run].details # ConnectMsg]_vars

\* The runs that have been started, and the one started last: runs start in
\* the order of their numbers.
Started == {r \in Runs : pc[r] # "idle"}
Latest == CHOOSE r \in Started : \A q \in Started : q <= r

\* C17, as claimed: once every run that was started has ended, the output
\* shows what the run started last has rendered.
C17_LatestTriggeredWins ==
    (Started # {} /\ \A r \in Started : pc[r] = "done")
        => output = <<rendered[Latest]>>

\* What the code does in place of C17: nothing orders the renderings of
\* overlapping runs. A run that ends replaces the output with its own result
\* whatever the other runs have shown, and the output changes only when a run
\* renders; so once all runs have ended the output shows the result of the
\* run that ended last.
C17_LastSettledWins ==
    [][/\ \A r \in Runs :
             (pc[r] # "done" /\ pc'[r] = "done") => output' = <<rendered'[r]>>
       /\ output' # output =>
             \E r \in Runs : pc'[r] # pc[r] /\ output' = <<rendered'[r]>>]_vars

\* The calls a makeApiRequest timer belongs to: those of its run to its
\* endpoint whose fetch is pending.
PendingCallsOf(t, calls) ==
    {c \in calls : c.run = t.run /\ c.endpoint = t.kind /\ c.phase = "fetch"}

\* C18: a makeApiRequest timer is armed only while the one call that armed it
\* is pending, and every call whose fetch is pending has its timer: a call
\* that has returned or thrown has left no timer behind. A timer that fires
\* takes exactly one call off the network, and that call is its own.
C18_TimerBoundToItsCall ==
    [][/\ \A t \in timers' :
             t.kind # "retry" => Cardinality(PendingCallsOf(t, net')) = 1
       /\ \A c \in net' :
             c.phase = "fetch" => Timer(c.run, c.endpoint) \in timers'
       /\ \A t \in timers :
             (t.kind # "retry" /\ TimerFires(t)) =>
                 /\ Cardinality(net \ net') = 1
                 /\ net \ net' \subseteq PendingCallsOf(t, net)
                 /\ t \notin timers']_vars

\* The timer of one run has aborted its call and the run has ended, while a
\* call of another run is pending with its timer armed.
C18_Witness ==
    \E a \in aborted, t \in timers :
        /\ pc[a.run] = "done" /\ a \notin timers
        /\ t.run # a.run /\ PendingCallsOf(t, net) # {}

\* ---------------------------------------------------------------------------
\* isValidStackOverflowUrl on its own: one URL is put to it.

\* The number of tokens after the path of a URL.
MaxIdLen == 2
IdTokens == {"1", "2", "a"}
Hosts == {"stackoverflow.com", "example.com"}
Paths == {"/questions/", "/q/", "/users/"}
Prefixes == {<<>>, <<"https://", "example.com", "/?next=">>}
Suffixes == {<<>>, <<"/", "title">>}

RECURSIVE SeqsUpTo(_, _)
SeqsUpTo(S, n) ==
    IF n = 0 THEN {<<>>}
    ELSE LET shorter == SeqsUpTo(S, n - 1)
         IN  shorter \cup {Append(q, x) : q \in shorter, x \in S}

\* The URLs put to the check: a scheme, a host, a path and the tokens of an
\* identifier, perhaps after the start of another URL and perhaps followed by
\* a title; and the empty string, null and undefined.
UrlInputs ==
    {pre \o <<sch, h, p>> \o id \o suf :
        pre \in Prefixes, sch \in Schemes, h \in Hosts, p \in Paths,
        id \in SeqsUpTo(IdTokens, MaxIdLen), suf \in Suffixes}
    \cup {<<>>, NoValue, Undefined}

\* No popup is open.
PopupOff ==
    /\ loaded = FALSE
    /\ output = <<>>
    /\ pc = [r \in Runs |-> "idle"]
    /\ attempt = [r \in Runs |-> 0]
    /\ url = [r \in Runs |-> NoValue]
    /\ net = {}
    /\ timers = {}
    /\ healthy = [r \in Runs |-> "unknown"]
    /\ posts = [r \in Runs |-> 0]
    /\ rendered = [r \in Runs |-> NoBlock]
    /\ aborted = {}

CheckInit ==
    /\ candidate \in UrlInputs
    /\ verdict = "unchecked"
    /\ PopupOff /\ ObserverOff /\ CoordinatorOff

CheckUrl ==
    /\ verdict = "unchecked"
    /\ verdict' = IF isValidStackOverflowUrl(candidate) THEN "true" ELSE "false"
    /\ UNCHANGED <<candidate, popupVars, observerVars, coordinatorVars>>

CheckNext == CheckUrl

UrlSpec == CheckInit /\ [][CheckNext]_vars

\* The identifier segment of a URL that starts at its fourth token: the tokens
\* up to the next "/" or the end.
RECURSIVE SegmentFrom(_, _)
SegmentFrom(u, i) ==
    IF i > Len(u) \/ u[i] = "/" THEN <<>>
    ELSE <<u[i]>> \o SegmentFrom(u, i + 1)

\* The shape the specification supports: the URL starts with the scheme, the
\* host is stackoverflow.com, the path is /questions/ or /q/, and the
\* identifier segment exists and is purely numeric.
SupportedShape(u) ==
    /\ Truthy(u)
    /\ Len(u) >= 4
    /\ u[1] \in Schemes
    /\ u[2] = "stackoverflow.com"
    /\ u[3] \in {"/questions/", "/q/"}
    /\ LET seg == SegmentFrom(u, 4)
       IN  seg # <<>> /\ \A k \in 1..Len(seg) : seg[k] \in Digits

\* C11: isValidStackOverflowUrl answers true for every URL of the supported
\* shape and false for every other input (missing or non-numeric identifier,
\* another host even when the shape appears later in the URL, empty, null).
C11_TrueExactlyForSupportedShape ==
    verdict # "unchecked" => (verdict = "true" <=> SupportedShape(candidate))

\* The half of C11 that the code keeps: a URL of the supported shape is
\* accepted, and the empty string, null and undefined are rejected.
C11_SupportedShapeAccepted ==
    verdict # "unchecked" =>
        /\ SupportedShape(candidate) => verdict = "true"
        /\ ~Truthy(candidate) => verdict = "false"

\* ---------------------------------------------------------------------------
\* The page observer (src/content.js) in one page load.

Titles == {<<"How to sort a list">>, <<"Users">>}

\* The pages: a path and the tokens of a segment after it, perhaps followed by
\* a title; and a search page with a question path in its query string.
PageUrls ==
    {<<"https://", "stackoverflow.com", p>> \o id \o suf :
        p \in Paths, id \in SeqsUpTo(IdTokens, MaxIdLen), suf \in Suffixes}
    \cup {<<"https://", "stackoverflow.com", "/search", "?q=", "/questions/", "1">>}

\* The digits of u from its token i on: what (\d+) takes.
RECURSIVE DigitsFrom(_, _)
DigitsFrom(u, i) ==
    IF i > Len(u) \/ u[i] \notin Digits THEN <<>>
    ELSE <<u[i]>> \o DigitsFrom(u, i + 1)

\* getQuestionId on the URL u: url.match(/\/questions\/(\d+)/), the leftmost
\* place where "/questions/" is followed by a digit, and the digits there; or
\* null.
getQuestionId(u) ==
    LET places == {i \in 1..(Len(u) - 1) : u[i] = "/questions/" /\ u[i + 1] \in Digits}
    IN  IF places = {} THEN NoValue
        ELSE LET i == CHOOSE i \in places : \A j \in places : i <= j
             IN  DigitsFrom(u, i + 1)

QuestionPageLoaded(questionId, u) ==
    [action |-> "questionPageLoaded", questionId |-> questionId, url |-> u]

\* initialize: the messages sent once it has run.
initialize(u, msgs) ==
    LET questionId == getQuestionId(u)
    IN  IF Truthy(questionId)
        THEN Append(msgs, QuestionPageLoaded(questionId, u))
        ELSE msgs

ObserverInit ==
    /\ href \in PageUrls
    /\ docTitle \in Titles
    /\ stage = "injected"
    /\ sent = <<>>
    /\ pageInfo = NoValue
    /\ PopupOff /\ CheckOff /\ CoordinatorOff

\* The content script runs: with the document still loading it waits for
\* DOMContentLoaded, else it initializes at once; then it adds its listener.
RunScript(readyState) ==
    /\ stage = "injected"
    /\ IF readyState = "loading"
       THEN stage' = "waiting" /\ sent' = sent
       ELSE stage' = "initialized" /\ sent' = initialize(href, sent)
    /\ UNCHANGED <<href, docTitle, pageInfo, popupVars, checkVars, coordinatorVars>>

\* DOMContentLoaded of the page: the listener the script registered runs.
PageContentLoaded ==
    /\ stage = "waiting"
    /\ stage' = "initialized"
    /\ sent' = initialize(href, sent)
    /\ UNCHANGED <<href, docTitle, pageInfo, popupVars, checkVars, coordinatorVars>>

\* A 'getPageInfo' request arrives at the script's onMessage listener.
GetPageInfo ==
    /\ stage \in {"waiting", "initialized"}
    /\ pageInfo' = [url |-> href, questionId |-> getQuestionId(href),
                    title |-> docTitle]
    /\ UNCHANGED <<href, docTitle, stage, sent, popupVars, checkVars, coordinatorVars>>

ObserverNext ==
    \/ \E readyState \in {"loading", "interactive", "complete"} : RunScript(readyState)
    \/ PageContentLoaded
    \/ GetPageInfo

ObserverSpec == ObserverInit /\ [][ObserverNext]_vars

\* The identifier the specification gives a page: the segment directly after
\* /questions/ in the path when it is purely numeric, else none.
NumericSegment(u) ==
    IF Len(u) >= 4 /\ u[3] = "/questions/"
    THEN LET seg == SegmentFrom(u, 4)
         IN  IF seg # <<>> /\ \A k \in 1..Len(seg) : seg[k] \in Digits
             THEN seg ELSE NoValue
    ELSE NoValue

\* The page load has been handled in this step: initialize has run.
Initializes == stage # "initialized" /\ stage' = "initialized"

\* C15: when the page load is handled, exactly one 'questionPageLoaded' with
\* the identifier and the page URL is sent if the URL has a purely numeric
\* segment directly after /questions/ (the identifier is that segment), and
\* nothing is sent otherwise; 'getPageInfo' is answered with the current URL,
\* that identifier or null, and the title.
C15_OneMessagePerNumericSegment ==
    [][/\ Initializes =>
             sent' = IF NumericSegment(href) # NoValue
                     THEN <<QuestionPageLoaded(NumericSegment(href), href)>>
                     ELSE <<>>
       /\ GetPageInfo =>
             pageInfo' = [url |-> href, questionId |-> NumericSegment(href),
                          title |-> docTitle]]_vars

\* What of C15 the code keeps: at most one message for a page load, sent
\* exactly when getQuestionId finds an identifier, and carrying it with the URL.
C15_OneMessagePerMatch ==
    /\ Len(sent) <= 1
    /\ stage = "initialized" =>
          sent = IF getQuestionId(href) # NoValue
                 THEN <<QuestionPageLoaded(getQuestionId(href), href)>>
                 ELSE <<>>

\* ---------------------------------------------------------------------------
\* The coordinator (background.js): the badge and the title of each tab.

\* The number of tabs that are open.
MaxTabs == 2
Tabs == 1..MaxTabs

\* A page whose URL the extension is not given: tab.url is undefined there.
HiddenPage == <<"chrome://", "settings">>
Pages == {QuestionUrl, ShortUrl, OtherSiteUrl, HiddenPage}

\* tab.url as the extension sees it.
VisibleUrl(page) == IF page[1] = "chrome://" THEN Undefined ELSE page

\* tab.url.includes('stackoverflow.com/questions/')
IncludesQuestionsPath(u) ==
    \E i \in 1..(Len(u) - 1) : u[i] = "stackoverflow.com" /\ u[i + 1] = "/questions/"

ReadyBadge == <<"check mark">>
NoBadge == <<>>
ClickToSummarizeTitle == <<"Click to summarize this StackOverflow question">>
NavigateTitle == <<"Navigate to a StackOverflow question to summarize">>
DefaultTitle == <<"default title">>

\* The tabs that are open when the coordinator starts to listen: any pages,
\* nothing set for them yet.
CoordinatorInit ==
    /\ tabUrl \in [Tabs -> Pages]
    /\ badge = [t \in Tabs |-> NoBadge]
    /\ title = [t \in Tabs |-> DefaultTitle]
    /\ handled = [t \in Tabs |-> FALSE]
    /\ PopupOff /\ CheckOff /\ ObserverOff

\* Tab t completes a navigation to page, and the chrome.tabs.onUpdated
\* listener runs with status 'complete'. resets: the browser has dropped what
\* was set for the tab when it left the old page, or it has not.
OnUpdated(t, page, resets) ==
    LET seen == VisibleUrl(page)
        oldBadge == IF resets THEN NoBadge ELSE badge[t]
        oldTitle == IF resets THEN DefaultTitle ELSE title[t]
    IN  /\ tabUrl' = [tabUrl EXCEPT ![t] = page]
        /\ handled' = [handled EXCEPT ![t] = TRUE]
        /\ IF Truthy(seen)
           THEN IF IncludesQuestionsPath(seen)
                THEN /\ badge' = [badge EXCEPT ![t] = ReadyBadge]
                     /\ title' = [title EXCEPT ![t] = ClickToSummarizeTitle]
                ELSE /\ badge' = [badge EXCEPT ![t] = NoBadge]
                     /\ title' = [title EXCEPT ![t] = NavigateTitle]
           ELSE /\ badge' = [badge EXCEPT ![t] = oldBadge]
                /\ title' = [title EXCEPT ![t] = oldTitle]
        /\ UNCHANGED <<popupVars, checkVars, observerVars>>

\* Tab t becomes the active tab: the chrome.tabs.onActivated listener gets
\* the tab and sets or clears its badge.
OnActivated(t) ==
    LET seen == VisibleUrl(tabUrl[t])
    IN  /\ handled' = [handled EXCEPT ![t] = TRUE]
        /\ IF Truthy(seen) /\ IncludesQuestionsPath(seen)
           THEN badge' = [badge EXCEPT ![t] = ReadyBadge]
           ELSE badge' = [badge EXCEPT ![t] = NoBadge]
        /\ UNCHANGED <<tabUrl, title, popupVars, checkVars, observerVars>>

CoordinatorNext ==
    \/ \E t \in Tabs, page \in Pages, resets \in BOOLEAN : OnUpdated(t, page, resets)
    \/ \E t \in Tabs : OnActivated(t)

CoordinatorSpec == CoordinatorInit /\ [][CoordinatorNext]_vars

\* C16: once a listener of the coordinator has run for a tab, the tab shows
\* the ready badge and the 'Click to summarize' title when its current URL is
\* a question page, and neither of them when it is any other page, a page
\* whose URL the extension does not see included.
C16_DisplayIsFunctionOfUrl ==
    \A t \in Tabs :
        handled[t] =>
            IF IncludesQuestionsPath(tabUrl[t])
            THEN badge[t] = ReadyBadge /\ title[t] = ClickToSummarizeTitle
            ELSE badge[t] = NoBadge /\ title[t] # ClickToSummarizeTitle

\* What of C16 the code keeps: a completed navigation to a page whose URL the
\* extension sees sets the badge and the title by that URL alone, and an
\* activation sets the badge by it.
C16_VisibleNavigationSetsBoth ==
    [][\A t \in Tabs :
          /\ \A page \in Pages, resets \in BOOLEAN :
                (OnUpdated(t, page, resets) /\ Truthy(VisibleUrl(page))) =>
                    IF IncludesQuestionsPath(page)
                    THEN badge'[t] = ReadyBadge /\ title'[t] = ClickToSummarizeTitle
                    ELSE badge'[t] = NoBadge /\ title'[t] = NavigateTitle
          /\ OnActivated(t) =>
                badge'[t] = IF IncludesQuestionsPath(tabUrl[t])
                            THEN ReadyBadge ELSE NoBadge]_vars

====
